---- MODULE Spec2Model ----
(***************************************************************************)
(* Clinic records data layer (backend/app/models.py) and its admin console *)
(* (backend/app/admin.py), as a state machine over the relational store.   *)
(*                                                                         *)
(* Each table is a set of rows.  A write is either a programmatic save     *)
(* (Model.save / Manager.create: only the storage-level constraints of the *)
(* class Meta and of the field declarations are enforced) or an admin form *)
(* submission (full_clean runs the declared validators, choices,           *)
(* limit_choices_to and uniqueness checks, then saves).  Deletes follow    *)
(* the on_delete rule of every foreign key.                                *)
(***************************************************************************)
EXTENDS Integers, Sequences, FiniteSets, TLC

VARIABLES
    users,          \* rows of User
    patients,       \* rows of Patient
    doctors,        \* rows of Doctor
    histories,      \* rows of DiagnosisHistory
    diagnostics,    \* rows of DiagnosticList
    labresults,     \* rows of LabResult
    appointments,   \* rows of Appointment
    seq,            \* next primary key of every table (keys are never reused)
    pending,        \* per writer: an appointment form that passed validation and is not saved yet
    last            \* the last operation attempted and its outcome

vars == <<users, patients, doctors, histories, diagnostics, labresults,
          appointments, seq, pending, last>>

----------------------------------------------------------------------------
(* Bounds of the model *)

MaxUsers == 3
MaxPatients == 2
MaxDoctors == 2
MaxHistories == 2
MaxDiagnostics == 1
MaxLabResults == 1
MaxAppointments == 2

(* null=True foreign keys hold NULL when cleared; primary keys start at 1 *)
NULL == 0

EmptyFields == [k \in {} |-> ""]

----------------------------------------------------------------------------
(* Strings that the code transforms are sequences of one-character strings *)

Lower(c) ==
    CASE c = "A" -> "a"
      [] c = "B" -> "b"
      [] c = "X" -> "x"
      [] c = "I" -> "i"
      [] c = "O" -> "o"
      [] OTHER -> c

LowerSeq(s) == [i \in 1..Len(s) |-> Lower(s[i])]

RECURSIVE LStrip(_)
LStrip(s) == IF s # <<>> /\ Head(s) = " " THEN LStrip(Tail(s)) ELSE s

RECURSIVE RStrip(_)
RStrip(s) ==
    IF s # <<>> /\ s[Len(s)] = " " THEN RStrip(SubSeq(s, 1, Len(s) - 1)) ELSE s

Strip(s) == LStrip(RStrip(s))

(* index of the last "@" of s, 0 when there is none: str.rsplit("@", 1) *)
LastAt(s) ==
    LET at == {i \in 1..Len(s) : s[i] = "@"}
    IN  IF at = {} THEN 0 ELSE CHOOSE i \in at : \A j \in at : j <= i

(* BaseUserManager.normalize_email as called by create_user: the domain    *)
(* part of the stripped address is lowercased; an address without "@" is   *)
(* returned as given *)
normalize_email(email) ==
    LET s == Strip(email)
        k == LastAt(s)
    IN  IF k = 0 THEN email
        ELSE SubSeq(s, 1, k) \o LowerSeq(SubSeq(s, k + 1, Len(s)))

----------------------------------------------------------------------------
(* Field validators run by full_clean (forms), never by save() *)

Digits == {"0", "1", "2", "3", "4", "5", "6", "7", "8", "9"}

AllDigits(s) == \A i \in 1..Len(s) : s[i] \in Digits

(* User.phone_regex: ^\+?1?\d{9,15}$ *)
phone_regex(s) ==
    LET r == IF s # <<>> /\ Head(s) = "+" THEN Tail(s) ELSE s
    IN  \/ AllDigits(r) /\ Len(r) \in 9..15
        \/ r # <<>> /\ Head(r) = "1" /\ AllDigits(Tail(r)) /\ Len(Tail(r)) \in 9..15

(* phone_number: blank=True, validators=[phone_regex] *)
PhoneFieldClean(s) == s = <<>> \/ phone_regex(s)

Letters == {"a", "b", "x", "i", "o", "A", "B", "X", "I", "O"}

(* EmailField of a form: the value is stripped, must not be empty and must *)
(* be local@label.tld over the characters used here *)
EmailFieldClean(email) ==
    LET s == Strip(email)
        k == LastAt(s)
        dom == SubSeq(s, k + 1, Len(s))
        dots == {i \in 1..Len(dom) : dom[i] = "."}
    IN  /\ k > 1
        /\ \A i \in 1..(k - 1) : s[i] \in Letters
        /\ Cardinality(dots) = 1
        /\ \A i \in dots : i > 1 /\ Len(dom) - i >= 2
        /\ \A i \in (1..Len(dom)) \ dots : dom[i] \in Letters

(* User.USER_TYPE_CHOICES *)
USER_TYPE_CHOICES == {"patient", "doctor", "admin"}

----------------------------------------------------------------------------
(* Outcome of an operation *)

Result(op, ok, err, arg) == [op |-> op, ok |-> ok, err |-> err, arg |-> arg]

Field(extra_fields, k, default) ==
    IF k \in DOMAIN extra_fields THEN extra_fields[k] ELSE default

setdefault(extra_fields, k, v) ==
    [j \in DOMAIN extra_fields \cup {k} |->
        IF j \in DOMAIN extra_fields THEN extra_fields[j] ELSE v]

----------------------------------------------------------------------------
(* User *)

(* email = models.EmailField(unique=True): the storage-level constraint *)
EmailTaken(email, except_id) ==
    \E u \in users : u.id # except_id /\ u.email = email

(* the address create_user stores *)
StoredEmail_raw(email) == email

StoredEmail(email) == normalize_email(email)

(* self.model(email=email, **extra_fields): fields not given take the      *)
(* defaults of the field declarations (CharField: "", is_active: True)     *)
NewUser(id, email, extra_fields) ==
    [id |-> id,
     email |-> email,
     user_type |-> Field(extra_fields, "user_type", ""),
     is_staff |-> Field(extra_fields, "is_staff", FALSE),
     is_superuser |-> Field(extra_fields, "is_superuser", FALSE),
     is_active |-> Field(extra_fields, "is_active", TRUE),
     phone_number |-> Field(extra_fields, "phone_number", <<>>)]

(* what create_user leaves in the table when it raises *)
UsersAfterFailedCreate_partial(row) == users \cup {row}

UsersAfterFailedCreate(row) == users

(* UserManager.create_user, op names the entry point *)
create_user_as(op, email, extra_fields) ==
    /\ seq.users <= MaxUsers
    /\ UNCHANGED <<patients, doctors, histories, diagnostics, labresults,
                   appointments, pending>>
    /\ IF email = <<>>
       THEN /\ last' = Result(op, FALSE, "ValueError", email)
            /\ UNCHANGED <<users, seq>>
       ELSE LET row == NewUser(seq.users, StoredEmail(email), extra_fields)
            IN  IF EmailTaken(row.email, NULL)
                THEN /\ last' = Result(op, FALSE, "IntegrityError", email)
                     /\ users' = UsersAfterFailedCreate(row)
                     /\ UNCHANGED seq
                ELSE /\ last' = Result(op, TRUE, "", email)
                     /\ users' = users \cup {row}
                     /\ seq' = [seq EXCEPT !.users = @ + 1]

create_user(email, extra_fields) == create_user_as("create_user", email, extra_fields)

(* UserManager.create_superuser *)
SuperuserFields_forced(extra_fields) ==
    [j \in DOMAIN extra_fields
            \cup {"is_staff", "is_superuser", "is_active", "user_type"} |->
        IF j = "user_type" THEN "admin"
        ELSE IF j \in {"is_staff", "is_superuser", "is_active"} THEN TRUE
        ELSE extra_fields[j]]

SuperuserFields(extra_fields) ==
    setdefault(setdefault(setdefault(setdefault(extra_fields,
        "is_staff", TRUE), "is_superuser", TRUE), "is_active", TRUE),
        "user_type", "admin")

create_superuser(email, extra_fields) ==
    create_user_as("create_superuser", email, SuperuserFields(extra_fields))

(* user_type = models.CharField(max_length=10, choices=USER_TYPE_CHOICES): *)
(* a form accepts only the declared choices *)
UserTypeFieldClean_any(t) == TRUE

UserTypeFieldClean(t) == t \in USER_TYPE_CHOICES

(* UserAdmin add form (add_fieldsets): email, user_type, is_active and     *)
(* is_staff are submitted; full_clean validates them, AbstractUser.clean   *)
(* normalizes the address, validate_unique checks it, then the row is saved *)
UserFormClean(form, except_id) ==
    IF ~EmailFieldClean(form.email) THEN "email"
    ELSE IF ~UserTypeFieldClean(form.user_type) THEN "user_type"
    ELSE IF ~PhoneFieldClean(form.phone_number) THEN "phone_number"
    ELSE IF EmailTaken(normalize_email(Strip(form.email)), except_id) THEN "unique"
    ELSE ""

UserAdminAdd(form) ==
    /\ seq.users <= MaxUsers
    /\ UNCHANGED <<patients, doctors, histories, diagnostics, labresults,
                   appointments, pending>>
    /\ LET err == UserFormClean(form, NULL)
           row == NewUser(seq.users, normalize_email(Strip(form.email)),
                          [user_type |-> form.user_type,
                           is_active |-> form.is_active,
                           is_staff |-> form.is_staff])
       IN  IF err # ""
           THEN /\ last' = Result("UserAdminAdd", FALSE, err, NULL)
                /\ UNCHANGED <<users, seq>>
           ELSE /\ last' = Result("UserAdminAdd", TRUE, "", NULL)
                /\ users' = users \cup {row}
                /\ seq' = [seq EXCEPT !.users = @ + 1]

(* the user_type a submitted change form stores: the fieldset (_('User     *)
(* type'), {'fields': ('user_type',)}) makes the field editable *)
ChangedUserType(u, form) == form.user_type

(* UserAdmin change form (fieldsets) *)
UserAdminChange(id, form) ==
    /\ \E u \in users : u.id = id
    /\ UNCHANGED <<patients, doctors, histories, diagnostics, labresults,
                   appointments, seq, pending>>
    /\ LET u == CHOOSE u \in users : u.id = id
           err == UserFormClean(form, id)
           row == [u EXCEPT !.email = normalize_email(Strip(form.email)),
                            !.user_type = ChangedUserType(u, form),
                            !.phone_number = form.phone_number,
                            !.is_active = form.is_active,
                            !.is_staff = form.is_staff,
                            !.is_superuser = form.is_superuser]
       IN  IF err # ""
           THEN /\ last' = Result("UserAdminChange", FALSE, err, id)
                /\ UNCHANGED users
           ELSE /\ last' = Result("UserAdminChange", TRUE, "", id)
                /\ users' = (users \ {u}) \cup {row}

----------------------------------------------------------------------------
(* on_delete rules: what is left of a row whose foreign key f points into  *)
(* the set of deleted keys *)

SET_NULL(row, f, gone) ==
    IF row[f] \in gone THEN {[row EXCEPT ![f] = NULL]} ELSE {row}

CASCADE(row, f, gone) ==
    IF row[f] \in gone THEN {} ELSE {row}

Patient_user(row, gone) == CASCADE(row, "user", gone)

Doctor_user(row, gone) == CASCADE(row, "user", gone)

DiagnosisHistory_patient(row, gone) == CASCADE(row, "patient", gone)

DiagnosisHistory_doctor(row, gone) == SET_NULL(row, "doctor", gone)

DiagnosticList_patient(row, gone) == CASCADE(row, "patient", gone)

DiagnosticList_doctor(row, gone) == SET_NULL(row, "doctor", gone)

LabResult_patient_kept(row, gone) == SET_NULL(row, "patient", gone)

LabResult_patient(row, gone) == CASCADE(row, "patient", gone)

LabResult_doctor_cascade(row, gone) == CASCADE(row, "doctor", gone)

LabResult_doctor(row, gone) == SET_NULL(row, "doctor", gone)

Appointment_patient(row, gone) == CASCADE(row, "patient", gone)

Appointment_doctor_set_null(row, gone) == SET_NULL(row, "doctor", gone)

Appointment_doctor(row, gone) == CASCADE(row, "doctor", gone)

(* Model.delete() of the users delU, patients delP and doctors delD: the   *)
(* deletion collector follows every foreign key to the rows collected *)
Delete(op, arg, delU, delP, delD) ==
    LET goneP == delP \cup {p.id : p \in {q \in patients : Patient_user(q, delU) = {}}}
        goneD == delD \cup {d.id : d \in {q \in doctors : Doctor_user(q, delU) = {}}}
    IN  /\ users' = {u \in users : u.id \notin delU}
        /\ patients' = {p \in patients : p.id \notin goneP}
        /\ doctors' = {d \in doctors : d.id \notin goneD}
        /\ histories' = UNION {DiagnosisHistory_doctor(r, goneD) :
                r \in UNION {DiagnosisHistory_patient(q, goneP) : q \in histories}}
        /\ diagnostics' = UNION {DiagnosticList_doctor(r, goneD) :
                r \in UNION {DiagnosticList_patient(q, goneP) : q \in diagnostics}}
        /\ labresults' = UNION {LabResult_doctor(r, goneD) :
                r \in UNION {LabResult_patient(q, goneP) : q \in labresults}}
        /\ appointments' = UNION {Appointment_doctor(r, goneD) :
                r \in UNION {Appointment_patient(q, goneP) : q \in appointments}}
        /\ last' = Result(op, TRUE, "", arg)
        /\ UNCHANGED <<seq, pending>>

UserDelete(id) ==
    /\ \E u \in users : u.id = id
    /\ Delete("UserDelete", id, {id}, {}, {})

PatientDelete(id) ==
    /\ \E p \in patients : p.id = id
    /\ Delete("PatientDelete", id, {}, {id}, {})

DoctorDelete(id) ==
    /\ \E d \in doctors : d.id = id
    /\ Delete("DoctorDelete", id, {}, {}, {id})

----------------------------------------------------------------------------
(* Patient and Doctor profiles *)

Exists(table, id) == \E r \in table : r.id = id

(* limit_choices_to={'user_type': ...}: applied when the form validates    *)
(* the user field, not by the storage layer *)
LimitChoicesTo(user, user_type) ==
    \E u \in users : u.id = user /\ u.user_type = user_type

(* user = models.OneToOneField(User, ...): one profile per user *)
PatientIntegrity(row) ==
    IF ~Exists(users, row.user) THEN "user"
    ELSE IF \E p \in patients : p.id # row.id /\ p.user = row.user THEN "unique"
    ELSE ""

PatientClean(row) ==
    IF ~LimitChoicesTo(row.user, "patient") THEN "user" ELSE ""

(* a calendar date: date_of_birth = models.DateField(), date.today() *)
date(y, m, d) == [year |-> y, month |-> m, day |-> d]

(* Python's comparison of tuples: by the first position where they differ  *)
RECURSIVE TupleLess(_, _)
TupleLess(a, b) ==
    IF a = <<>> THEN b # <<>>
    ELSE IF b = <<>> THEN FALSE
    ELSE IF Head(a) # Head(b) THEN Head(a) < Head(b)
    ELSE TupleLess(Tail(a), Tail(b))

(* (today.month, today.day) < (born.month, born.day) *)
MonthDayBefore_month_only(today, born) == today.month < born.month

MonthDayBefore(today, born) ==
    TupleLess(<<today.month, today.day>>, <<born.month, born.day>>)

(* int - bool: True counts as 1, False as 0 *)
BoolAsInt(b) == IF b THEN 1 ELSE 0

(* Patient.age, with today = date.today() *)
age(born, today) ==
    today.year - born.year - BoolAsInt(MonthDayBefore(today, born))

(* the age column and readonly field of PatientAdmin, read on the day today *)
Patient_age(id, today) ==
    /\ \E p \in patients : p.id = id
    /\ LET p == CHOOSE q \in patients : q.id = id
       IN  last' = Result("Patient.age", TRUE, "",
                          [born |-> p.date_of_birth, today |-> today,
                           age |-> age(p.date_of_birth, today)])
    /\ UNCHANGED <<users, patients, doctors, histories, diagnostics, labresults,
                   appointments, seq, pending>>

PatientForm(u, born) == [user |-> u, date_of_birth |-> born]

PatientAdminAdd(form) ==
    /\ seq.patients <= MaxPatients
    /\ UNCHANGED <<users, doctors, histories, diagnostics, labresults,
                   appointments, pending>>
    /\ LET row == [id |-> seq.patients, user |-> form.user,
                   date_of_birth |-> form.date_of_birth]
           err == IF PatientClean(row) # "" THEN PatientClean(row)
                  ELSE PatientIntegrity(row)
       IN  IF err # ""
           THEN /\ last' = Result("PatientAdminAdd", FALSE, err, NULL)
                /\ UNCHANGED <<patients, seq>>
           ELSE /\ last' = Result("PatientAdminAdd", TRUE, "", NULL)
                /\ patients' = patients \cup {row}
                /\ seq' = [seq EXCEPT !.patients = @ + 1]

(* years_of_experience: validators=[MaxValueValidator(70)] *)
MaxYearsOfExperience == 70

(* license_number: unique=True; user: OneToOneField *)
DoctorIntegrity(row) ==
    IF ~Exists(users, row.user) THEN "user"
    ELSE IF \E d \in doctors : d.id # row.id /\ d.user = row.user THEN "unique"
    ELSE IF \E d \in doctors : d.id # row.id /\ d.license_number = row.license_number
         THEN "unique_license"
    ELSE ""

DoctorClean(row) ==
    IF ~LimitChoicesTo(row.user, "doctor") THEN "user"
    ELSE IF row.license_number = "" THEN "required"
    ELSE IF row.years_of_experience < 0
            \/ row.years_of_experience > MaxYearsOfExperience THEN "range"
    ELSE ""

DoctorAdminAdd(form) ==
    /\ seq.doctors <= MaxDoctors
    /\ UNCHANGED <<users, patients, histories, diagnostics, labresults,
                   appointments, pending>>
    /\ LET row == [id |-> seq.doctors, user |-> form.user,
                   license_number |-> form.license_number,
                   years_of_experience |-> form.years_of_experience]
           err == IF DoctorClean(row) # "" THEN DoctorClean(row)
                  ELSE DoctorIntegrity(row)
       IN  IF err # ""
           THEN /\ last' = Result("DoctorAdminAdd", FALSE, err, NULL)
                /\ UNCHANGED <<doctors, seq>>
           ELSE /\ last' = Result("DoctorAdminAdd", TRUE, "", NULL)
                /\ doctors' = doctors \cup {row}
                /\ seq' = [seq EXCEPT !.doctors = @ + 1]

----------------------------------------------------------------------------
(* DiagnosisHistory *)

YearMin == 1900
YearMax == 2100
SystolicMin == 50
SystolicMax == 250
DiastolicMin == 30
DiastolicMax == 150
HeartRateMin == 30
HeartRateMax == 220
RespiratoryRateMin == 5
RespiratoryRateMax == 60

(* MinValueValidator(lo), MaxValueValidator(hi): both inclusive *)
InRange(v, lo, hi) == lo <= v /\ v <= hi

(* the validators declared on the fields, run by full_clean *)
DiagnosisHistoryClean(row) ==
    IF ~Exists(patients, row.patient) THEN "patient"
    ELSE IF row.doctor # NULL /\ ~Exists(doctors, row.doctor) THEN "doctor"
    ELSE IF row.month = "" THEN "required"
    ELSE IF ~InRange(row.year, YearMin, YearMax) THEN "range"
    ELSE IF ~InRange(row.blood_pressure_systolic_value, SystolicMin, SystolicMax)
         THEN "range"
    ELSE IF ~InRange(row.blood_pressure_diastolic_value, DiastolicMin, DiastolicMax)
         THEN "range"
    ELSE IF ~InRange(row.heart_rate_value, HeartRateMin, HeartRateMax) THEN "range"
    ELSE IF ~InRange(row.respiratory_rate_value, RespiratoryRateMin, RespiratoryRateMax)
         THEN "range"
    ELSE ""

(* UniqueConstraint(fields=['patient', 'month', 'year']) *)
unique_patient_diagnosis_history(a, b) ==
    a.patient = b.patient /\ a.month = b.month /\ a.year = b.year

HistoryKey(row) == [patient |-> row.patient, month |-> row.month, year |-> row.year]

(* what the storage layer enforces on INSERT and UPDATE: the foreign keys, *)
(* the CHECK (>= 0) of every PositiveIntegerField and the constraint *)
DiagnosisHistoryIntegrity_no_constraint(row) ==
    IF ~Exists(patients, row.patient) THEN "patient"
    ELSE IF row.doctor # NULL /\ ~Exists(doctors, row.doctor) THEN "doctor"
    ELSE IF \E v \in {row.year, row.blood_pressure_systolic_value,
                      row.blood_pressure_diastolic_value, row.heart_rate_value,
                      row.respiratory_rate_value} : v < 0 THEN "check"
    ELSE ""

DiagnosisHistoryIntegrity(row) ==
    IF ~Exists(patients, row.patient) THEN "patient"
    ELSE IF row.doctor # NULL /\ ~Exists(doctors, row.doctor) THEN "doctor"
    ELSE IF \E v \in {row.year, row.blood_pressure_systolic_value,
                      row.blood_pressure_diastolic_value, row.heart_rate_value,
                      row.respiratory_rate_value} : v < 0 THEN "check"
    ELSE IF \E h \in histories :
                h.id # row.id /\ unique_patient_diagnosis_history(h, row) THEN "unique"
    ELSE ""

DiagnosisHistoryRow(id, f) ==
    [id |-> id, patient |-> f.patient, doctor |-> f.doctor,
     month |-> f.month, year |-> f.year,
     blood_pressure_systolic_value |-> f.blood_pressure_systolic_value,
     blood_pressure_diastolic_value |-> f.blood_pressure_diastolic_value,
     heart_rate_value |-> f.heart_rate_value,
     respiratory_rate_value |-> f.respiratory_rate_value]

(* a write of row: validate says whether full_clean runs before the save *)
DiagnosisHistoryWrite(op, row, validate, isNew) ==
    /\ UNCHANGED <<users, patients, doctors, diagnostics, labresults,
                   appointments, pending>>
    /\ LET err == IF validate /\ DiagnosisHistoryClean(row) # ""
                  THEN DiagnosisHistoryClean(row)
                  ELSE DiagnosisHistoryIntegrity(row)
       IN  IF err # ""
           THEN /\ last' = Result(op, FALSE, err, HistoryKey(row))
                /\ UNCHANGED <<histories, seq>>
           ELSE /\ last' = Result(op, TRUE, "", HistoryKey(row))
                /\ histories' = {h \in histories : h.id # row.id} \cup {row}
                /\ seq' = IF isNew THEN [seq EXCEPT !.histories = @ + 1] ELSE seq

(* DiagnosisHistoryAdmin add form *)
DiagnosisHistoryAdminAdd(form) ==
    /\ seq.histories <= MaxHistories
    /\ DiagnosisHistoryWrite("DiagnosisHistoryAdminAdd",
            DiagnosisHistoryRow(seq.histories, form), TRUE, TRUE)

(* DiagnosisHistoryAdmin change form *)
DiagnosisHistoryAdminChange(id, form) ==
    /\ Exists(histories, id)
    /\ DiagnosisHistoryWrite("DiagnosisHistoryAdminChange",
            DiagnosisHistoryRow(id, form), TRUE, FALSE)

(* DiagnosisHistory.objects.create(...) / DiagnosisHistory(...).save():    *)
(* Model.save() does not call full_clean *)
DiagnosisHistoryCreate(fields) ==
    /\ seq.histories <= MaxHistories
    /\ DiagnosisHistoryWrite("DiagnosisHistoryCreate",
            DiagnosisHistoryRow(seq.histories, fields), FALSE, TRUE)

----------------------------------------------------------------------------
(* DiagnosticList and LabResult *)

DiagnosticList_STATUS_CHOICES ==
    {"active", "controlled", "resolved", "monitoring", "chronic"}

RESULT_STATUS_CHOICES == {"normal", "abnormal", "critical", "pending"}

ClinicalClean(row, choices) ==
    IF ~Exists(patients, row.patient) THEN "patient"
    ELSE IF row.doctor # NULL /\ ~Exists(doctors, row.doctor) THEN "doctor"
    ELSE IF row.name = "" THEN "required"
    ELSE IF row.status \notin choices THEN "choice"
    ELSE ""

DiagnosticListAdminAdd(form) ==
    /\ seq.diagnostics <= MaxDiagnostics
    /\ UNCHANGED <<users, patients, doctors, histories, labresults,
                   appointments, pending>>
    /\ LET row == [id |-> seq.diagnostics, patient |-> form.patient,
                   doctor |-> form.doctor, name |-> form.name,
                   status |-> form.status]
           err == ClinicalClean(row, DiagnosticList_STATUS_CHOICES)
       IN  IF err # ""
           THEN /\ last' = Result("DiagnosticListAdminAdd", FALSE, err, row.id)
                /\ UNCHANGED <<diagnostics, seq>>
           ELSE /\ last' = Result("DiagnosticListAdminAdd", TRUE, "", row.id)
                /\ diagnostics' = diagnostics \cup {row}
                /\ seq' = [seq EXCEPT !.diagnostics = @ + 1]

LabResultAdminAdd(form) ==
    /\ seq.labresults <= MaxLabResults
    /\ UNCHANGED <<users, patients, doctors, histories, diagnostics,
                   appointments, pending>>
    /\ LET row == [id |-> seq.labresults, patient |-> form.patient,
                   doctor |-> form.doctor, name |-> form.name,
                   status |-> form.status]
           err == ClinicalClean(row, RESULT_STATUS_CHOICES)
       IN  IF err # ""
           THEN /\ last' = Result("LabResultAdminAdd", FALSE, err, row.id)
                /\ UNCHANGED <<labresults, seq>>
           ELSE /\ last' = Result("LabResultAdminAdd", TRUE, "", row.id)
                /\ labresults' = labresults \cup {row}
                /\ seq' = [seq EXCEPT !.labresults = @ + 1]

----------------------------------------------------------------------------
(* Appointment.  An admin request validates the form against the store and *)
(* then saves; another writer's save may fall between the two, so they are *)
(* two steps of a writer.                                                  *)

Writers == {"w1", "w2"}

(* UniqueConstraint(fields=['doctor', 'appointment_date', 'appointment_time']) *)
unique_doctor_appointment_slot_any_doctor(a, b) ==
    /\ a.appointment_date = b.appointment_date
    /\ a.appointment_time = b.appointment_time

unique_doctor_appointment_slot(a, b) ==
    /\ a.doctor = b.doctor
    /\ a.appointment_date = b.appointment_date
    /\ a.appointment_time = b.appointment_time

SlotTaken(row) ==
    \E a \in appointments : a.id # row.id /\ unique_doctor_appointment_slot(a, row)

(* full_clean of the appointment form: required fields, both foreign keys, *)
(* validate_constraints *)
AppointmentClean(row) ==
    IF ~Exists(patients, row.patient) THEN "patient"
    ELSE IF ~Exists(doctors, row.doctor) THEN "doctor"
    ELSE IF row.appointment_date = "" \/ row.appointment_time = "" THEN "required"
    ELSE IF SlotTaken(row) THEN "unique"
    ELSE ""

(* what the storage layer enforces when the row is written *)
AppointmentIntegrity_no_constraint(row) ==
    IF ~Exists(patients, row.patient) THEN "patient"
    ELSE IF ~Exists(doctors, row.doctor) THEN "doctor"
    ELSE ""

AppointmentIntegrity(row) ==
    IF ~Exists(patients, row.patient) THEN "patient"
    ELSE IF ~Exists(doctors, row.doctor) THEN "doctor"
    ELSE IF SlotTaken(row) THEN "unique"
    ELSE ""

AppointmentRow(id, f) ==
    [id |-> id, patient |-> f.patient, doctor |-> f.doctor,
     appointment_date |-> f.appointment_date,
     appointment_time |-> f.appointment_time]

PendingAdds ==
    Cardinality({w \in Writers : \E r \in pending[w] : r.id = NULL})

(* writer w submits the add form (id = NULL) or the change form of row id *)
AppointmentFormClean(w, id, form) ==
    /\ pending[w] = {}
    /\ id = NULL \/ Exists(appointments, id)
    /\ id = NULL => seq.appointments + PendingAdds <= MaxAppointments
    /\ UNCHANGED <<users, patients, doctors, histories, diagnostics, labresults,
                   appointments, seq>>
    /\ LET row == AppointmentRow(id, form)
           err == AppointmentClean(row)
       IN  IF err # ""
           THEN /\ last' = Result("AppointmentFormClean", FALSE, err, row)
                /\ UNCHANGED pending
           ELSE /\ last' = Result("AppointmentFormClean", TRUE, "", row)
                /\ pending' = [pending EXCEPT ![w] = {row}]

(* writer w's validated form is saved: INSERT for a new row, UPDATE (or    *)
(* INSERT when the row is gone) for an existing key *)
AppointmentSave(w) ==
    /\ pending[w] # {}
    /\ UNCHANGED <<users, patients, doctors, histories, diagnostics, labresults>>
    /\ pending' = [pending EXCEPT ![w] = {}]
    /\ LET req == CHOOSE r \in pending[w] : TRUE
           isNew == req.id = NULL
           row == IF isNew THEN [req EXCEPT !.id = seq.appointments] ELSE req
           err == AppointmentIntegrity(row)
       IN  IF err # ""
           THEN /\ last' = Result("AppointmentSave", FALSE, err, req)
                /\ UNCHANGED <<appointments, seq>>
           ELSE /\ last' = Result("AppointmentSave", TRUE, "", req)
                /\ appointments' = {a \in appointments : a.id # row.id} \cup {row}
                /\ seq' = IF isNew THEN [seq EXCEPT !.appointments = @ + 1] ELSE seq

(* Doctor.name: the title marker before the full name of the doctor's    *)
(* account, which is named here by its key *)
Doctor_name(d) == <<"Dr.", d.user>>

(* AppointmentAdmin.doctor_name: obj.doctor.name, an error when the        *)
(* appointment has no doctor to read the name of *)
doctor_name(obj, doctors_) ==
    IF obj.doctor = NULL THEN [error |-> "AttributeError", name |-> <<>>]
    ELSE IF ~\E d \in doctors_ : d.id = obj.doctor
         THEN [error |-> "DoesNotExist", name |-> <<>>]
    ELSE [error |-> "",
          name |-> Doctor_name(CHOOSE d \in doctors_ : d.id = obj.doctor)]

----------------------------------------------------------------------------
(* The empty store *)

Init ==
    /\ users = {}
    /\ patients = {}
    /\ doctors = {}
    /\ histories = {}
    /\ diagnostics = {}
    /\ labresults = {}
    /\ appointments = {}
    /\ seq = [users |-> 1, patients |-> 1, doctors |-> 1, histories |-> 1,
              diagnostics |-> 1, labresults |-> 1, appointments |-> 1]
    /\ pending = [w \in Writers |-> {}]
    /\ last = Result("init", TRUE, "", NULL)

----------------------------------------------------------------------------
(* Inputs *)

E_none == <<>>
E_a == <<"a", "@", "x", ".", "i", "o">>
E_aX == <<"a", "@", "X", ".", "I", "O">>
E_A == <<"A", "@", "x", ".", "i", "o">>
E_a_sp == <<"a", "@", "x", ".", "i", "o", " ">>
E_b == <<"b", "@", "x", ".", "i", "o">>
E_o == <<"o", "@", "x", ".", "i", "o">>
E_noat == <<"a", "x">>

DateOfBirth == date(2000, 6, 15)

Phone_ok == <<"+", "1", "2", "3", "4", "5", "6", "7", "8", "9", "0">>
Phone_short == <<"1", "2", "3", "4", "5", "6", "7", "8">>

FormOf(u) ==
    [email |-> u.email, user_type |-> u.user_type, phone_number |-> u.phone_number,
     is_active |-> u.is_active, is_staff |-> u.is_staff,
     is_superuser |-> u.is_superuser]

(* change forms: the row as shown, with one field edited *)
ChangeForms(u, emails, types, phones) ==
    {[FormOf(u) EXCEPT !.email = e] : e \in emails}
    \cup {[FormOf(u) EXCEPT !.user_type = t] : t \in types}
    \cup {[FormOf(u) EXCEPT !.phone_number = p] : p \in phones}

AddForms(emails, types) ==
    [email : emails, user_type : types, phone_number : {<<>>},
     is_active : {TRUE}, is_staff : {FALSE}]

----------------------------------------------------------------------------
(* Accounts: every way an account is created, edited and deleted *)

AccountEmails == {E_none, E_a, E_aX, E_A, E_a_sp}

NextAccounts ==
    \/ \E e \in AccountEmails :
         \E x \in {EmptyFields, [user_type |-> "patient"], [user_type |-> "doctor"],
                    [user_type |-> "nurse"]} : create_user(e, x)
    \/ \E e \in AccountEmails :
         \E x \in {EmptyFields, [user_type |-> "doctor"]} : create_superuser(e, x)
    \/ \E f \in AddForms({E_aX, E_A, E_noat}, {"admin", "patient", ""}) : UserAdminAdd(f)
    \/ \E u \in users :
         \E f \in ChangeForms(u, {E_aX, E_A}, {"patient", "doctor", "nurse"},
                               {Phone_ok, Phone_short}) : UserAdminChange(u.id, f)
    \/ \E u \in users : UserDelete(u.id)

SpecAccounts == Init /\ [][NextAccounts]_vars

(* C6: create_user (also when reached through create_superuser) fails and  *)
(* stores no account whenever the email is missing or its normalized form  *)
(* is the stored email of an existing account, and no two stored accounts  *)
(* have the same normalized email.                                         *)
C6_CreateUserRejectsDuplicateEmail ==
    [][/\ (/\ last'.op \in {"create_user", "create_superuser"}
           /\ \/ last'.arg = <<>>
              \/ \E u \in users : u.email = normalize_email(last'.arg))
          => (~last'.ok /\ users' = users)
       /\ \A u \in users' : \A v \in users' :
            u.id # v.id => normalize_email(u.email) # normalize_email(v.email)]_vars

(* a create_user call was refused for an address that differs from the     *)
(* stored one only before normalization *)
C6_Witness ==
    /\ last.op = "create_user"
    /\ ~last.ok
    /\ last.err = "IntegrityError"
    /\ \E u \in users : u.email = normalize_email(last.arg) /\ u.email # last.arg
    /\ Cardinality(users) = 2

(* C9 (as stated): no step changes the user_type of a stored account.        *)
C9_RoleNeverChanges ==
    [][\A u \in users : \A v \in users' :
        v.id = u.id => v.user_type = u.user_type]_vars

(* C9 (amended): the user_type of a stored account changes only by a         *)
(* successful submission of the User admin change form for that account,   *)
(* and then only to one of the declared choices.                           *)
C9_RoleChangesOnlyByAdminChange ==
    [][\A u \in users : \A v \in users' :
        (v.id = u.id /\ v.user_type # u.user_type)
            => /\ last'.op = "UserAdminChange"
               /\ last'.ok
               /\ last'.arg = u.id
               /\ v.user_type \in USER_TYPE_CHOICES]_vars

(* the change form has just given an account created as a patient the role *)
(* doctor *)
C9_Witness ==
    /\ last.op = "UserAdminChange"
    /\ last.ok
    /\ \E u \in users : u.id = last.arg /\ u.user_type = "doctor" /\ u.is_superuser
    /\ Cardinality(users) = 2

(* C10: every stored account has a role among patient, doctor, admin.      *)
C10_RoleInChoices ==
    \A u \in users : u.user_type \in USER_TYPE_CHOICES

----------------------------------------------------------------------------
(* Booking: one patient, two doctors, two writers booking and rebooking    *)

Ids(table) == {r.id : r \in table}

Dates == {"2025-01-06"}

Times == {"09:00", "10:00"}

LicenseOf(u) == IF u = 1 THEN "L1" ELSE IF u = 2 THEN "L2" ELSE "L3"

(* each doctor account submits its own license number *)
DoctorForms(users_, years) ==
    {[user |-> u, license_number |-> LicenseOf(u), years_of_experience |-> y] :
        u \in users_, y \in years}

AppointmentForms ==
    [patient : Ids(patients), doctor : Ids(doctors),
     appointment_date : Dates, appointment_time : Times]

NextBooking ==
    \/ create_user(E_a, [user_type |-> "patient"])
    \/ \E e \in {E_b, E_o} : create_user(e, [user_type |-> "doctor"])
    \/ \E u \in Ids(users) : PatientAdminAdd(PatientForm(u, DateOfBirth))
    \/ \E f \in DoctorForms(Ids(users), {5}) : DoctorAdminAdd(f)
    \/ \E w \in Writers : \E id \in {NULL} \cup Ids(appointments) :
         \E f \in AppointmentForms : AppointmentFormClean(w, id, f)
    \/ \E w \in Writers : AppointmentSave(w)

SpecBooking == Init /\ [][NextBooking]_vars

(* C1: under every interleaving of the writers' validations and saves, no  *)
(* two stored appointments have the same doctor, date and time.            *)
C1_NoDoubleBooking ==
    \A a \in appointments : \A b \in appointments :
        a.id # b.id =>
            ~(/\ a.doctor = b.doctor
              /\ a.appointment_date = b.appointment_date
              /\ a.appointment_time = b.appointment_time)

(* two writers validated a booking of the same free slot; one is stored,   *)
(* the other's insert has just been refused by the constraint *)
C1_Witness ==
    /\ last.op = "AppointmentSave"
    /\ ~last.ok
    /\ last.err = "unique"
    /\ last.arg.id = NULL
    /\ \E a \in appointments :
            /\ a.doctor = last.arg.doctor
            /\ a.appointment_date = last.arg.appointment_date
            /\ a.appointment_time = last.arg.appointment_time

(* C2: an appointment insert whose patient and doctor exist and whose date *)
(* and time are given is rejected only when a stored appointment has the   *)
(* same doctor, date and time; one with another doctor never rejects it.   *)
C2_OtherDoctorNeverRejects ==
    [][(/\ last'.op \in {"AppointmentFormClean", "AppointmentSave"}
        /\ ~last'.ok
        /\ last'.arg.id = NULL
        /\ Exists(patients, last'.arg.patient)
        /\ Exists(doctors, last'.arg.doctor)
        /\ last'.arg.appointment_date # ""
        /\ last'.arg.appointment_time # "")
       => \E a \in appointments :
            /\ a.doctor = last'.arg.doctor
            /\ a.appointment_date = last'.arg.appointment_date
            /\ a.appointment_time = last'.arg.appointment_time]_vars

(* the same patient has just been booked with a second doctor at the date  *)
(* and time of a stored appointment *)
C2_Witness ==
    /\ last.op = "AppointmentSave"
    /\ last.ok
    /\ last.arg.id = NULL
    /\ \E a \in appointments : \E b \in appointments :
            /\ a.doctor # b.doctor
            /\ a.patient = b.patient
            /\ a.appointment_date = b.appointment_date
            /\ a.appointment_time = b.appointment_time
            /\ b.doctor = last.arg.doctor
            /\ b.appointment_time = last.arg.appointment_time

----------------------------------------------------------------------------
(* Vitals: two patients, monthly records written through the admin forms   *)
(* and through the model's save() *)

Vitals(sys, dia, hr, rr) ==
    [blood_pressure_systolic_value |-> sys, blood_pressure_diastolic_value |-> dia,
     heart_rate_value |-> hr, respiratory_rate_value |-> rr]

VitalInputs ==
    {Vitals(SystolicMin, 80, 70, 16), Vitals(SystolicMax, 80, 70, 16),
     Vitals(SystolicMin - 1, 80, 70, 16), Vitals(SystolicMax + 1, 80, 70, 16),
     Vitals(120, 80, 70, RespiratoryRateMax + 1)}

HistoryForms(patients_, doctors_, months, years) ==
    {[patient |-> p, doctor |-> d, month |-> m, year |-> y,
      blood_pressure_systolic_value |-> v.blood_pressure_systolic_value,
      blood_pressure_diastolic_value |-> v.blood_pressure_diastolic_value,
      heart_rate_value |-> v.heart_rate_value,
      respiratory_rate_value |-> v.respiratory_rate_value] :
        p \in patients_, d \in doctors_, m \in months, y \in years, v \in VitalInputs}

VitalsForms == HistoryForms(Ids(patients), {NULL}, {"January"}, {2024, 2025})

NextVitals ==
    \/ \E e \in {E_a, E_b} : create_user(e, [user_type |-> "patient"])
    \/ \E u \in Ids(users) : PatientAdminAdd(PatientForm(u, DateOfBirth))
    \/ \E f \in VitalsForms : DiagnosisHistoryAdminAdd(f)
    \/ \E h \in histories : \E f \in VitalsForms : DiagnosisHistoryAdminChange(h.id, f)
    \/ \E f \in VitalsForms : DiagnosisHistoryCreate(f)

SpecVitals == Init /\ [][NextVitals]_vars

(* C3: no two stored DiagnosisHistory rows have the same patient, month    *)
(* and year, and an insert for a key that is already stored fails and      *)
(* stores nothing.                                                         *)
C3_UniquePatientMonthYear ==
    [][/\ (/\ last'.op \in {"DiagnosisHistoryAdminAdd", "DiagnosisHistoryCreate"}
           /\ \E h \in histories :
                /\ h.patient = last'.arg.patient
                /\ h.month = last'.arg.month
                /\ h.year = last'.arg.year)
          => (~last'.ok /\ histories' = histories)
       /\ \A a \in histories' : \A b \in histories' :
            a.id # b.id =>
                ~(a.patient = b.patient /\ a.month = b.month /\ a.year = b.year)]_vars

(* a second insert for a stored (patient, month, year) has just been       *)
(* refused by the constraint *)
C3_Witness ==
    /\ last.op \in {"DiagnosisHistoryAdminAdd", "DiagnosisHistoryCreate"}
    /\ ~last.ok
    /\ last.err = "unique"
    /\ \E h \in histories :
            /\ h.patient = last.arg.patient
            /\ h.month = last.arg.month
            /\ h.year = last.arg.year

(* C7: every stored DiagnosisHistory row has its four integer vital signs  *)
(* within the declared inclusive bounds, whatever write stored it.         *)
C7_StoredVitalsInRange ==
    \A h \in histories :
        /\ h.blood_pressure_systolic_value \in 50..250
        /\ h.blood_pressure_diastolic_value \in 30..150
        /\ h.heart_rate_value \in 30..220
        /\ h.respiratory_rate_value \in 5..60

----------------------------------------------------------------------------
(* Deletes: a patient and two doctors with clinical records and            *)
(* appointments, and the deletion of users, patients and doctors           *)

ClinicalForms(doctors_, name, status) ==
    [patient : Ids(patients), doctor : doctors_, name : {name}, status : {status}]

(* the accounts registered, in this order: a patient, a doctor, then      *)
(* either a second doctor or the patient's address again *)
PlannedEmail(n, second_doctor) ==
    IF n = 2 THEN E_b ELSE IF n = 3 /\ second_doctor THEN E_o ELSE E_a

PlannedType(n, second_doctor) ==
    IF n = 2 \/ (n = 3 /\ second_doctor) THEN "doctor" ELSE "patient"

UsersOfType(t) == {u.id : u \in {v \in users : v.user_type = t}}

NextDelete ==
    \/ create_user(PlannedEmail(seq.users, FALSE),
                   [user_type |-> PlannedType(seq.users, FALSE)])
    \/ \E u \in UsersOfType("patient") : PatientAdminAdd(PatientForm(u, DateOfBirth))
    \/ \E f \in DoctorForms(UsersOfType("doctor"), {5}) : DoctorAdminAdd(f)
    \/ \E f \in HistoryForms(Ids(patients), {NULL}, {"January"}, {2024}) :
            /\ f.blood_pressure_systolic_value = SystolicMin
            /\ DiagnosisHistoryAdminAdd(f)
    \/ \E f \in ClinicalForms({NULL}, "Hypertension", "active") :
            DiagnosticListAdminAdd(f)
    \/ \E f \in ClinicalForms({NULL}, "CBC", "pending") : LabResultAdminAdd(f)
    \/ \E f \in AppointmentForms :
            /\ f.appointment_time = "09:00"
            /\ AppointmentFormClean("w1", NULL, f)
    \/ AppointmentSave("w1")
    \/ \E u \in users : UserDelete(u.id)
    \/ \E p \in patients : PatientDelete(p.id)
    \/ \E d \in doctors : DoctorDelete(d.id)

SpecDelete == Init /\ [][NextDelete]_vars

----------------------------------------------------------------------------
(* Doctor deletion: clinical records attributed to one of two doctors or   *)
(* to none, and the deletion of doctors and of their accounts              *)

NextDoctorDelete ==
    \/ create_user(PlannedEmail(seq.users, TRUE),
                   [user_type |-> PlannedType(seq.users, TRUE)])
    \/ \E u \in UsersOfType("patient") : PatientAdminAdd(PatientForm(u, DateOfBirth))
    \/ \E f \in DoctorForms(UsersOfType("doctor"), {5}) : DoctorAdminAdd(f)
    \/ \E f \in HistoryForms(Ids(patients), {NULL} \cup Ids(doctors), {"January"},
                              {2024}) :
            /\ f.blood_pressure_systolic_value = SystolicMin
            /\ DiagnosisHistoryAdminAdd(f)
    \/ \E f \in ClinicalForms({NULL} \cup Ids(doctors), "Hypertension", "active") :
            DiagnosticListAdminAdd(f)
    \/ \E f \in ClinicalForms(Ids(doctors), "CBC", "pending") : LabResultAdminAdd(f)
    \/ \E u \in users : UserDelete(u.id)
    \/ \E d \in doctors : DoctorDelete(d.id)

SpecDoctorDelete == Init /\ [][NextDoctorDelete]_vars

(* table with the doctor reference of every row naming a doctor of gone   *)
(* cleared *)
DoctorCleared(table, gone) ==
    {IF r.doctor \in gone THEN [r EXCEPT !.doctor = NULL] ELSE r : r \in table}

(* C4: deleting a Doctor (or the account of a doctor who has no patient    *)
(* profile) keeps every DiagnosisHistory, DiagnosticList and LabResult row *)
(* that referenced it, with doctor cleared to null and every other field   *)
(* as it was, and leaves the rows that did not reference it untouched.     *)
C4_DoctorDeleteSetsNull ==
    [][LET gone == IF last'.op = "DoctorDelete" THEN {last'.arg}
                   ELSE {d.id : d \in {q \in doctors : q.user = last'.arg}}
       IN  (\/ last'.op = "DoctorDelete"
            \/ /\ last'.op = "UserDelete"
               /\ ~\E p \in patients : p.user = last'.arg)
           => /\ histories' = DoctorCleared(histories, gone)
              /\ diagnostics' = DoctorCleared(diagnostics, gone)
              /\ labresults' = DoctorCleared(labresults, gone)]_vars

(* a doctor has just been deleted: the lab result that named it is stored  *)
(* with a null doctor, next to records that still name the other doctor    *)
C4_Witness ==
    /\ last.op = "DoctorDelete"
    /\ \E r \in labresults : r.doctor = NULL /\ Exists(patients, r.patient)
    /\ \E h \in histories : h.doctor # NULL
    /\ \E g \in diagnostics : g.doctor # NULL

(* C5: deleting a Patient, or the User that owns it, removes the profile   *)
(* and every DiagnosisHistory, DiagnosticList, LabResult and Appointment   *)
(* of that patient; after every step no clinical record or appointment     *)
(* references a missing patient and no profile references a missing user.  *)
C5_PatientDeleteCascades ==
    [][/\ LET gone == IF last'.op = "PatientDelete" THEN {last'.arg}
                      ELSE {p.id : p \in {q \in patients : q.user = last'.arg}}
          IN  last'.op \in {"PatientDelete", "UserDelete"}
              => /\ \A p \in patients' : p.id \notin gone
                 /\ \A r \in histories' : r.patient \notin gone
                 /\ \A r \in diagnostics' : r.patient \notin gone
                 /\ \A r \in labresults' : r.patient \notin gone
                 /\ \A r \in appointments' : r.patient \notin gone
                 /\ last'.op = "UserDelete" => \A u \in users' : u.id # last'.arg
       /\ \A r \in histories' : \E p \in patients' : p.id = r.patient
       /\ \A r \in diagnostics' : \E p \in patients' : p.id = r.patient
       /\ \A r \in labresults' : \E p \in patients' : p.id = r.patient
       /\ \A r \in appointments' : \E p \in patients' : p.id = r.patient
       /\ \A p \in patients' : \E u \in users' : u.id = p.user
       /\ \A d \in doctors' : \E u \in users' : u.id = d.user]_vars

(* the account of a patient who had a record of each kind and an           *)
(* appointment has just been deleted: nothing of the patient is left,      *)
(* while the doctor, never deleted, is still stored *)
C5_Witness ==
    /\ last.op = "UserDelete"
    /\ patients = {} /\ seq.patients = 2
    /\ histories = {} /\ seq.histories = 2
    /\ diagnostics = {} /\ seq.diagnostics = 2
    /\ labresults = {} /\ seq.labresults = 2
    /\ appointments = {} /\ seq.appointments = 2
    /\ doctors # {} /\ seq.doctors = 2

----------------------------------------------------------------------------
(* Writes: one write of every kind that can be refused                     *)

WriteEmails == {E_none, E_a}

NextWrites ==
    \/ \E e \in WriteEmails \cup {PlannedEmail(seq.users, TRUE)} :
         create_user(e, [user_type |-> IF e = E_a THEN "patient" ELSE "doctor"])
    \/ \E u \in users :
         \E f \in ChangeForms(u, {}, {}, {Phone_ok, Phone_short}) :
            UserAdminChange(u.id, f)
    \/ \E u \in UsersOfType("patient") : PatientAdminAdd(PatientForm(u, DateOfBirth))
    \/ \E u \in UsersOfType("doctor") : \E l \in {"", "L1", LicenseOf(u)} :
         \E y \in {5, MaxYearsOfExperience + 1} :
            DoctorAdminAdd([user |-> u, license_number |-> l,
                            years_of_experience |-> y])
    \/ \E f \in HistoryForms(Ids(patients), {NULL}, {"January", ""}, {2024}) :
            /\ f.blood_pressure_systolic_value \in {SystolicMin, SystolicMin - 1}
            /\ DiagnosisHistoryAdminAdd(f)
    \/ \E w \in Writers : \E f \in AppointmentForms :
            /\ f.appointment_time = "09:00"
            /\ AppointmentFormClean(w, NULL, f)
    \/ \E w \in Writers : AppointmentSave(w)

SpecWrites == Init /\ [][NextWrites]_vars

(* C8: a write that fails leaves every table as it was before the attempt. *)
C8_FailedWriteChangesNothing ==
    [][~last'.ok =>
        <<users, patients, doctors, histories, diagnostics, labresults,
          appointments>>'
        = <<users, patients, doctors, histories, diagnostics, labresults,
            appointments>>]_vars

(* with three accounts, two doctors, a vital-sign record and an            *)
(* appointment stored, a second booking of the taken slot has just failed  *)
C8_Witness ==
    /\ last.op = "AppointmentSave"
    /\ ~last.ok
    /\ last.err = "unique"
    /\ Cardinality(users) = 3
    /\ Cardinality(doctors) = 2
    /\ histories # {}
    /\ appointments # {}
    /\ \E u \in users : u.phone_number = Phone_ok

----------------------------------------------------------------------------
(* Profiles: accounts of either role, their profiles added through the     *)
(* Patient and Doctor admin forms, and the User admin change form          *)

NextProfiles ==
    \/ \E t \in {"patient", "doctor"} :
         create_user(PlannedEmail(seq.users, TRUE), [user_type |-> t])
    \/ \E u \in users :
         \E f \in ChangeForms(u, {}, {"patient", "doctor"}, {}) :
            UserAdminChange(u.id, f)
    \/ \E u \in Ids(users) : PatientAdminAdd(PatientForm(u, DateOfBirth))
    \/ \E f \in DoctorForms(Ids(users), {5}) : DoctorAdminAdd(f)
    \/ \E u \in users : UserDelete(u.id)

SpecProfiles == Init /\ [][NextProfiles]_vars

(* C11: every Patient profile belongs to exactly one User, whose role is   *)
(* patient, and every Doctor profile to exactly one User, whose role is    *)
(* doctor; a user has at most one Patient profile and at most one Doctor   *)
(* profile, and never a profile of the kind its role does not name.        *)
C11_ProfileMatchesRole ==
    /\ \A p \in patients :
         /\ Cardinality({u \in users : u.id = p.user}) = 1
         /\ \A u \in users : u.id = p.user => u.user_type = "patient"
    /\ \A d \in doctors :
         /\ Cardinality({u \in users : u.id = d.user}) = 1
         /\ \A u \in users : u.id = d.user => u.user_type = "doctor"
    /\ \A u \in users :
         /\ Cardinality({p \in patients : p.user = u.id}) <= 1
         /\ Cardinality({d \in doctors : d.user = u.id}) <= 1
         /\ ~(/\ \E p \in patients : p.user = u.id
              /\ \E d \in doctors : d.user = u.id)

----------------------------------------------------------------------------
(* Superusers: create_superuser called with every combination of the four  *)
(* keyword arguments it defaults, given or left out                        *)

(* the value the caller passes for a keyword argument it gives *)
Override ==
    [is_staff |-> FALSE, is_superuser |-> FALSE, is_active |-> FALSE,
     user_type |-> "doctor"]

SuperuserInputs == {[k \in S |-> Override[k]] : S \in SUBSET DOMAIN Override}

SuperuserEmails == {E_none, PlannedEmail(seq.users, TRUE)}

NextSuperuser ==
    \/ \E e \in SuperuserEmails : \E x \in SuperuserInputs : create_superuser(e, x)
    \/ \E e \in SuperuserEmails : create_user(e, [user_type |-> "patient"])
    \/ \E u \in users : UserDelete(u.id)

SpecSuperuser == Init /\ [][NextSuperuser]_vars

(* C12: a successful create_superuser(email, **x) stores exactly one new   *)
(* account; each of is_staff, is_superuser, is_active and user_type has    *)
(* the caller's value when x gives it, and otherwise True, True, True and  *)
(* admin.                                                                  *)
C12_SuperuserDefaultsAndOverrides ==
    [][\A e \in {E_a, E_b, E_o} : \A x \in SuperuserInputs :
         (create_superuser(e, x) /\ last'.ok)
         => /\ Cardinality(users' \ users) = 1
            /\ \A u \in users' \ users :
                 /\ u.is_staff = (IF "is_staff" \in DOMAIN x THEN x.is_staff ELSE TRUE)
                 /\ u.is_superuser =
                      (IF "is_superuser" \in DOMAIN x THEN x.is_superuser ELSE TRUE)
                 /\ u.is_active =
                      (IF "is_active" \in DOMAIN x THEN x.is_active ELSE TRUE)
                 /\ u.user_type =
                      (IF "user_type" \in DOMAIN x THEN x.user_type ELSE "admin")]_vars

(* create_superuser has just succeeded; one stored superuser was created   *)
(* with no keyword argument and has the four defaults, another was created *)
(* with is_staff=False and user_type='doctor' and has these two values     *)
(* next to the defaults of the two fields left out                         *)
C12_Witness ==
    /\ last.op = "create_superuser"
    /\ last.ok
    /\ \E u \in users :
         u.is_staff /\ u.is_superuser /\ u.is_active /\ u.user_type = "admin"
    /\ \E u \in users :
         ~u.is_staff /\ u.is_superuser /\ u.is_active /\ u.user_type = "doctor"

----------------------------------------------------------------------------
(* Age: a patient registered with one of several dates of birth, and the   *)
(* age shown on several days, among them birthdays and the days around     *)

BirthDates ==
    {date(2000, 6, 15), date(2000, 2, 29), date(2000, 1, 1), date(2000, 12, 31),
     date(1999, 6, 16), date(2023, 6, 15), date(2023, 3, 1)}

MonthDays ==
    {<<1, 1>>, <<2, 28>>, <<3, 1>>, <<5, 20>>, <<6, 14>>, <<6, 15>>, <<6, 16>>,
     <<7, 10>>, <<12, 31>>}

Todays ==
    {date(y, md[1], md[2]) : y \in {2000, 2023, 2024}, md \in MonthDays}
    \cup {date(2000, 2, 29), date(2024, 2, 29)}

NextAge ==
    \/ create_user(PlannedEmail(seq.users, FALSE),
                   [user_type |-> PlannedType(seq.users, FALSE)])
    \/ \E u \in UsersOfType("patient") : \E b \in BirthDates :
         PatientAdminAdd(PatientForm(u, b))
    \/ \E p \in patients : \E t \in Todays : Patient_age(p.id, t)

SpecAge == Init /\ [][NextAge]_vars

(* C13: for a date of birth and a current date not before it, Patient.age  *)
(* is the current year minus the birth year, less one exactly when the     *)
(* current month is before the birth month or, in the birth month, the     *)
(* current day is before the birth day; that is the number of birthdays    *)
(* passed up to the current date. Born 2000-06-15, the age is 23 on        *)
(* 2024-06-14 and 24 on 2024-06-15.                                        *)
C13_AgeIsWholeYears ==
    last.op = "Patient.age" =>
        LET b == last.arg.born
            t == last.arg.today
            notBefore == \/ t.year > b.year
                         \/ t.year = b.year /\ t.month > b.month
                         \/ t.year = b.year /\ t.month = b.month /\ t.day >= b.day
            before == \/ t.month < b.month
                      \/ t.month = b.month /\ t.day < b.day
            birthdays == {y \in (b.year + 1)..t.year :
                            \/ y < t.year
                            \/ b.month < t.month
                            \/ b.month = t.month /\ b.day <= t.day}
        IN  notBefore =>
              /\ last.arg.age = t.year - b.year - (IF before THEN 1 ELSE 0)
              /\ last.arg.age = Cardinality(birthdays)
              /\ (b = date(2000, 6, 15) /\ t = date(2024, 6, 14)) => last.arg.age = 23
              /\ (b = date(2000, 6, 15) /\ t = date(2024, 6, 15)) => last.arg.age = 24

(* the age of a patient born 2000-06-15 has just been read on 2024-06-14,  *)
(* the day before the birthday, and is 23                                  *)
C13_Witness ==
    /\ last.op = "Patient.age"
    /\ last.arg.born = date(2000, 6, 15)
    /\ last.arg.today = date(2024, 6, 14)
    /\ last.arg.age = 23

----------------------------------------------------------------------------
(* C14: deleting a Doctor, or the User owning it, deletes every            *)
(* appointment of that doctor; after every step each stored Appointment    *)
(* references a stored Doctor and a stored Patient, and the doctor_name    *)
(* column of the appointment list reads a name for each of them.           *)
C14_AppointmentNeverOutlivesDoctor ==
    [][/\ LET gone == IF last'.op = "DoctorDelete" THEN {last'.arg}
                      ELSE {d.id : d \in {q \in doctors : q.user = last'.arg}}
          IN  last'.op \in {"DoctorDelete", "UserDelete"}
              => /\ \A d \in doctors' : d.id \notin gone
                 /\ appointments' \subseteq appointments
                 /\ \A a \in appointments : a \in appointments' <=>
                        (a.doctor \notin gone /\ \E p \in patients' : p.id = a.patient)
       /\ \A a \in appointments' :
            /\ a.doctor # NULL
            /\ \E d \in doctors' : d.id = a.doctor
            /\ \E p \in patients' : p.id = a.patient
            /\ doctor_name(a, doctors').error = ""
            /\ doctor_name(a, doctors').name = <<"Dr.", (CHOOSE d \in doctors' :
                                                        d.id = a.doctor).user>>]_vars

(* the doctor of the only appointment booked has just been deleted: the    *)
(* appointment is gone, while the patient it was booked for and the        *)
(* patient's lab result are still stored                                   *)
C14_Witness ==
    /\ last.op = "DoctorDelete"
    /\ appointments = {} /\ seq.appointments = 2
    /\ doctors = {}
    /\ patients # {}
    /\ labresults # {}

====
